---- MODULE Spec2Model ----
(***************************************************************************)
(* Model of ToDoList-App/App.js: the TodoList component, its React state,  *)
(* its asynchronous handlers, the AsyncStorage key 'darkMode', and the     *)
(* REST service it calls.                                                  *)
(*                                                                         *)
(* Strings that the code inspects (task titles, the input text) are        *)
(* sequences of one-character strings, so that trim() is computed.         *)
(* Array positions are 0-based as in the source; At(s, i) reads s[i].      *)
(*                                                                         *)
(* Three specifications:                                                   *)
(*   Spec       one session of the app: the task handlers, the network and *)
(*              the service (AsyncStorage does not answer);                *)
(*   SpecDark   the darkMode preference across restarts of the app (the    *)
(*              service does not answer);                                  *)
(*   SpecFilter the derived list filteredTasks over arbitrary collections. *)
(* The task handlers read and write no preference state and the preference *)
(* code no task state, so each specification holds the other part still.   *)
(***************************************************************************)
EXTENDS Integers, Sequences, FiniteSets

VARIABLES
    tasks,          \* useState([])    : the local task collection
    task,           \* useState('')    : text of the "Add a new task..." input
    editingIndex,   \* useState(null)  : row position being edited, or Null
    editedTask,     \* useState('')    : text of the edit field
    filter,         \* useState('all')
    darkMode,       \* useState(false)
    mounted,        \* whether the mount effects have run in this process
    storage,        \* AsyncStorage value under 'darkMode': "null", "true", "false"
    storageQueue,   \* AsyncStorage calls issued and not yet executed (serial)
    savedMode,      \* loadMode: "idle", "waiting", or the value getItem produced
    srv,            \* the service's task table
    nextId,         \* the id the service assigns next
    net,            \* HTTP requests in flight
    issued,         \* number of HTTP requests issued by this process
    alerted,        \* number of Alert.alert calls made by the step taken last
    last,           \* the step taken last: [ev, arg], arg the row or the rid
    newest,         \* history: highest rid among the fetches that fulfilled
    editTarget,     \* history: id of the task startEditing loaded (0: no edit)
    pref,           \* history: value of the last completed write caused by the Switch
    restarted,      \* history: the app restarted since pref was written
    restarts        \* number of restarts

vars == <<tasks, task, editingIndex, editedTask, filter, darkMode, mounted,
          storage, storageQueue, savedMode, srv, nextId, net, issued, alerted,
          last, newest, editTarget, pref, restarted, restarts>>

uiVars      == <<tasks, task, editingIndex, editedTask, filter>>
prefVars    == <<darkMode, storage, storageQueue, savedMode, pref, restarted>>
serverVars  == <<srv, nextId>>

----------------------------------------------------------------------------
(* Bounds of the model *)

MaxIssued    == 2   \* a pressed button sends its request only while fewer
                    \* requests than this were issued in the session
MaxLen       == 3   \* SpecFilter: length of the collections enumerated
MaxRestarts  == 2   \* SpecDark: restarts of the app
MaxQueue     == 3   \* SpecDark: AsyncStorage calls waiting

Null == -1          \* editingIndex: null

----------------------------------------------------------------------------
(* Values *)

Whitespace == {" "}

Filters == {"all", "completed", "pending"}

\* Texts the user types into a TextInput.
TypedTexts == {<< >>, <<" ">>, <<" ", "y">>}

\* Texts the user types into the edit field of a row.
EditTexts == {<<"z">>}

Task(i, t, c) == [id |-> i, title |-> t, completed |-> c]

\* Tables the service may hold when the app starts.
InitialTables ==
    { << >>,
      << Task(1, <<"a">>, FALSE), Task(2, <<"b">>, TRUE) >> }

At(s, i) == s[i + 1]

InRange(s, i) == i >= 0 /\ i < Len(s)

RECURSIVE TrimStart(_)
TrimStart(s) ==
    IF s # << >> /\ Head(s) \in Whitespace THEN TrimStart(Tail(s)) ELSE s

RECURSIVE TrimEnd(_)
TrimEnd(s) ==
    IF s # << >> /\ s[Len(s)] \in Whitespace
    THEN TrimEnd(SubSeq(s, 1, Len(s) - 1))
    ELSE s

\* String.prototype.trim
Trim(s) == TrimEnd(TrimStart(s))

\* Boolean.prototype.toString
ToString(b) == IF b THEN "true" ELSE "false"

----------------------------------------------------------------------------
(* Derived list shown by the FlatList *)

\* Variant: the 'pending' branch without its negation.
KeepPendingUnnegated(f, t) ==
    IF f = "completed" THEN t.completed
    ELSE IF f = "pending" THEN t.completed
    ELSE TRUE

Keep(f, t) ==
    IF f = "completed" THEN t.completed
    ELSE IF f = "pending" THEN ~t.completed
    ELSE TRUE

RECURSIVE FilterSeq(_, _)
FilterSeq(s, f) ==
    IF s = << >> THEN << >>
    ELSE IF Keep(f, Head(s)) THEN <<Head(s)>> \o FilterSeq(Tail(s), f)
    ELSE FilterSeq(Tail(s), f)

filteredTasks == FilterSeq(tasks, filter)

\* Row positions the FlatList renders.
Rows == 0 .. (Len(filteredTasks) - 1)

----------------------------------------------------------------------------
(* Requests and the service *)

Mutators == {"removeTask", "addTask", "toggleComplete", "confirmEdit"}

Request(method, by, parent, id, title, completed) ==
    [rid |-> issued + 1, method |-> method, by |-> by, parent |-> parent,
     id |-> id, title |-> title, completed |-> completed,
     stage |-> "sent", ok |-> TRUE, data |-> << >>]

Reply(r, ok, data) == [r EXCEPT !.stage = "replied", !.ok = ok, !.data = data]

Step(ev, arg) == [ev |-> ev, arg |-> arg]

\* Position (1-based) of the first element of s with this id; 0 when there is none.
IndexOfId(s, id) ==
    IF \E i \in 1 .. Len(s) : s[i].id = id
    THEN CHOOSE i \in 1 .. Len(s) :
            /\ s[i].id = id
            /\ \A j \in 1 .. (i - 1) : s[j].id # id
    ELSE 0

RemoveAt(s, i) == SubSeq(s, 1, i - 1) \o SubSeq(s, i + 1, Len(s))

\* The service handles one request: GET /fetch/, POST /create/,
\* PUT /{id}/update/, DELETE /{id}/delete/.
ServerHandle(r) ==
    /\ r.stage = "sent"
    /\ LET i == IndexOfId(srv, r.id) IN
       IF r.method = "GET" THEN
            /\ net' = (net \ {r}) \cup {Reply(r, TRUE, srv)}
            /\ UNCHANGED serverVars
       ELSE IF r.method = "POST" THEN
            /\ srv' = Append(srv, Task(nextId, r.title, r.completed))
            /\ nextId' = nextId + 1
            /\ net' = (net \ {r}) \cup {Reply(r, TRUE, << >>)}
       ELSE IF i = 0 THEN
            /\ net' = (net \ {r}) \cup {Reply(r, FALSE, << >>)}
            /\ UNCHANGED serverVars
       ELSE IF r.method = "PUT" THEN
            /\ srv' = [srv EXCEPT ![i] = Task(r.id, r.title, r.completed)]
            /\ net' = (net \ {r}) \cup {Reply(r, TRUE, << >>)}
            /\ UNCHANGED nextId
       ELSE
            /\ srv' = RemoveAt(srv, i)
            /\ net' = (net \ {r}) \cup {Reply(r, TRUE, << >>)}
            /\ UNCHANGED nextId
    /\ last' = Step("service", 0)
    /\ alerted' = 0
    /\ UNCHANGED <<uiVars, prefVars, mounted, issued, newest, editTarget, restarts>>

\* An awaited request fulfils once the service replied with success ...
Fulfilled(r) == r.stage = "replied" /\ r.ok

\* ... and may reject at any time: an error status, or a failure of the network
\* before or after the service handled it.
MayReject(r) == TRUE

----------------------------------------------------------------------------
(* Initial state: the component constructed, no effect run yet *)

Init ==
    /\ tasks = << >>
    /\ task = << >>
    /\ editingIndex = Null
    /\ editedTask = << >>
    /\ filter = "all"
    /\ darkMode = FALSE
    /\ mounted = FALSE
    /\ storage = "null"
    /\ storageQueue = << >>
    /\ savedMode = "idle"
    /\ srv \in InitialTables
    /\ nextId = Len(srv) + 1
    /\ net = {}
    /\ issued = 0
    /\ alerted = 0
    /\ last = Step("init", 0)
    /\ newest = 0
    /\ editTarget = 0
    /\ pref = "none"
    /\ restarted = FALSE
    /\ restarts = 0

----------------------------------------------------------------------------
(* fetchTasks *)

\* The request a call of fetchTasks() issues; parent is the request whose
\* continuation made the call (0: the mount effect).
FetchTasks(parent) == {Request("GET", "fetchTasks", parent, 0, << >>, FALSE)}

\* Variant: the response appended to the collection instead of replacing it.
SetTasksAppending(data) == tasks \o data

\* setTasks(response.data)
SetTasks(data) == data

FetchTasksThen(r) ==
    /\ r.by = "fetchTasks"
    /\ Fulfilled(r)
    /\ tasks' = SetTasks(r.data)
    /\ net' = net \ {r}
    /\ newest' = IF r.rid > newest THEN r.rid ELSE newest
    /\ last' = Step("fetchTasksThen", r.rid)
    /\ alerted' = 0
    /\ UNCHANGED <<task, editingIndex, editedTask, filter, prefVars, serverVars,
                   mounted, issued, editTarget, restarts>>

\* Variant: the catch block also empties the collection.
FetchTasksCatchClearing(r) ==
    /\ r.by = "fetchTasks"
    /\ MayReject(r)
    /\ tasks' = << >>
    /\ net' = net \ {r}
    /\ last' = Step("fetchTasksCatch", r.rid)
    /\ alerted' = 1
    /\ UNCHANGED <<task, editingIndex, editedTask, filter, prefVars, serverVars,
                   mounted, issued, newest, editTarget, restarts>>

FetchTasksCatch(r) ==
    /\ r.by = "fetchTasks"
    /\ MayReject(r)
    /\ net' = net \ {r}
    /\ last' = Step("fetchTasksCatch", r.rid)
    /\ alerted' = 1
    /\ UNCHANGED <<uiVars, prefVars, serverVars, mounted, issued, newest, editTarget, restarts>>

----------------------------------------------------------------------------
(* Mount effects and the darkMode preference *)

StorageCall(op, val, cause) == [op |-> op, val |-> val, cause |-> cause]

\* useEffect(..., []) then useEffect(..., [darkMode]), both after the first render.
Mount ==
    /\ ~mounted
    /\ mounted' = TRUE
    /\ savedMode' = "waiting"
    /\ storageQueue' = storageQueue \o
            << StorageCall("getItem", "", "loadMode"),
               StorageCall("setItem", ToString(darkMode), "mount") >>
    /\ net' = net \cup FetchTasks(0)
    /\ issued' = issued + Cardinality(FetchTasks(0))
    /\ last' = Step("mount", 0)
    /\ alerted' = 0
    /\ UNCHANGED <<uiVars, darkMode, storage, pref, restarted, serverVars,
                   newest, editTarget, restarts>>

\* AsyncStorage executes the calls one at a time, in the order issued.
StorageExec ==
    /\ storageQueue # << >>
    /\ LET c == Head(storageQueue) IN
       IF c.op = "getItem"
       THEN /\ savedMode' = storage
            /\ UNCHANGED <<storage, pref, restarted>>
       ELSE /\ storage' = c.val
            /\ IF c.cause = "switch"
               THEN pref' = c.val /\ restarted' = FALSE
               ELSE UNCHANGED <<pref, restarted>>
            /\ UNCHANGED savedMode
    /\ storageQueue' = Tail(storageQueue)
    /\ last' = Step("storage", 0)
    /\ alerted' = 0
    /\ UNCHANGED <<uiVars, darkMode, mounted, serverVars, net, issued, newest, editTarget, restarts>>

\* loadMode after its await: setDarkMode(savedMode === 'true') when a value was
\* stored; a change of darkMode runs the [darkMode] effect again.
LoadModeThen ==
    /\ savedMode \notin {"idle", "waiting"}
    /\ savedMode' = "idle"
    /\ darkMode' = IF savedMode # "null" THEN savedMode = "true" ELSE darkMode
    /\ storageQueue' =
            IF darkMode' # darkMode
            THEN Append(storageQueue, StorageCall("setItem", ToString(darkMode'), "loadMode"))
            ELSE storageQueue
    /\ last' = Step("loadModeThen", 0)
    /\ alerted' = 0
    /\ UNCHANGED <<uiVars, storage, pref, restarted, mounted, serverVars, net,
                   issued, newest, editTarget, restarts>>

\* Switch onValueChange={() => setDarkMode(!darkMode)}, then the [darkMode] effect.
ToggleDarkMode ==
    /\ mounted
    /\ Len(storageQueue) < MaxQueue
    /\ darkMode' = ~darkMode
    /\ storageQueue' = Append(storageQueue, StorageCall("setItem", ToString(~darkMode), "switch"))
    /\ pref' = "none"
    /\ restarted' = FALSE
    /\ last' = Step("setDarkMode", 0)
    /\ alerted' = 0
    /\ UNCHANGED <<uiVars, storage, savedMode, mounted, serverVars, net, issued,
                   newest, editTarget, restarts>>

\* The process ends and the app is started again: React state is constructed
\* anew, calls and requests not yet executed are lost, the stored key and the
\* service's table remain.
Restart ==
    /\ mounted
    /\ restarts < MaxRestarts
    /\ restarts' = restarts + 1
    /\ tasks' = << >>
    /\ task' = << >>
    /\ editingIndex' = Null
    /\ editedTask' = << >>
    /\ filter' = "all"
    /\ darkMode' = FALSE
    /\ mounted' = FALSE
    /\ storageQueue' = << >>
    /\ savedMode' = "idle"
    /\ net' = {}
    /\ issued' = 0
    /\ newest' = 0
    /\ editTarget' = 0
    /\ restarted' = (pref # "none")
    /\ last' = Step("restart", 0)
    /\ alerted' = 0
    /\ UNCHANGED <<storage, pref, serverVars>>

----------------------------------------------------------------------------
(* Inputs and filter buttons *)

\* TextInput onChangeText={setTask}
SetTask(t) ==
    /\ mounted
    /\ t # task
    /\ task' = t
    /\ last' = Step("input", 0)
    /\ alerted' = 0
    /\ UNCHANGED <<tasks, editingIndex, editedTask, filter, prefVars, serverVars,
                   mounted, net, issued, newest, editTarget, restarts>>

\* TextInput onChangeText={setEditedTask}: rendered in the row being edited.
SetEditedTask(t) ==
    /\ editingIndex \in Rows
    /\ t # editedTask
    /\ editedTask' = t
    /\ last' = Step("input", 0)
    /\ alerted' = 0
    /\ UNCHANGED <<tasks, task, editingIndex, filter, prefVars, serverVars,
                   mounted, net, issued, newest, editTarget, restarts>>

\* onPress={() => setFilter(type)}
SetFilter(f) ==
    /\ mounted
    /\ f # filter
    /\ filter' = f
    /\ last' = Step("input", 0)
    /\ alerted' = 0
    /\ UNCHANGED <<tasks, task, editingIndex, editedTask, prefVars, serverVars,
                   mounted, net, issued, newest, editTarget, restarts>>

----------------------------------------------------------------------------
(* removeTask *)

\* Variant: axios.delete not awaited, so fetchTasks() runs at once.
RemoveTaskNotAwaited(row) ==
    /\ row \in Rows
    /\ issued < MaxIssued
    /\ LET item == At(filteredTasks, row)
           del  == Request("DELETE", "removeTask", 0, item.id, << >>, FALSE)
           get  == [Request("GET", "fetchTasks", del.rid, 0, << >>, FALSE)
                        EXCEPT !.rid = del.rid + 1]
       IN  net' = net \cup {del, get}
    /\ issued' = issued + 2
    /\ last' = Step("removeTask", row)
    /\ alerted' = 0
    /\ UNCHANGED <<uiVars, prefVars, serverVars, mounted, newest,
                   editTarget, restarts>>

RemoveTask(row) ==
    /\ row \in Rows
    /\ issued < MaxIssued
    /\ LET item == At(filteredTasks, row) IN
       net' = net \cup {Request("DELETE", "removeTask", 0, item.id, << >>, FALSE)}
    /\ issued' = issued + 1
    /\ last' = Step("removeTask", row)
    /\ alerted' = 0
    /\ UNCHANGED <<uiVars, prefVars, serverVars, mounted, newest,
                   editTarget, restarts>>

RemoveTaskThen(r) ==
    /\ r.by = "removeTask"
    /\ Fulfilled(r)
    /\ net' = (net \ {r}) \cup FetchTasks(r.rid)
    /\ issued' = issued + Cardinality(FetchTasks(r.rid))
    /\ last' = Step("removeTaskThen", r.rid)
    /\ alerted' = 0
    /\ UNCHANGED <<uiVars, prefVars, serverVars, mounted, newest, editTarget, restarts>>

RemoveTaskCatch(r) ==
    /\ r.by = "removeTask"
    /\ MayReject(r)
    /\ net' = net \ {r}
    /\ last' = Step("removeTaskCatch", r.rid)
    /\ alerted' = 1
    /\ UNCHANGED <<uiVars, prefVars, serverVars, mounted, issued, newest, editTarget, restarts>>

----------------------------------------------------------------------------
(* addTask *)

\* Variant: the text compared without trim().
BlankUntrimmed(s) == s = << >>

\* if (task.trim() === '') return;
Blank(s) == Trim(s) = << >>

AddTask ==
    /\ mounted
    /\ ~Blank(task) => issued < MaxIssued
    /\ IF Blank(task)
       THEN UNCHANGED <<net, issued>>
       ELSE /\ net' = net \cup {Request("POST", "addTask", 0, 0, task, FALSE)}
            /\ issued' = issued + 1
    /\ last' = Step("addTask", 0)
    /\ alerted' = 0
    /\ UNCHANGED <<uiVars, prefVars, serverVars, mounted, newest,
                   editTarget, restarts>>

AddTaskThen(r) ==
    /\ r.by = "addTask"
    /\ Fulfilled(r)
    /\ task' = << >>
    /\ net' = (net \ {r}) \cup FetchTasks(r.rid)
    /\ issued' = issued + Cardinality(FetchTasks(r.rid))
    /\ last' = Step("addTaskThen", r.rid)
    /\ alerted' = 0
    /\ UNCHANGED <<tasks, editingIndex, editedTask, filter, prefVars, serverVars,
                   mounted, newest, editTarget, restarts>>

\* Variant: the catch block sends the request again.
AddTaskCatchRetrying(r) ==
    /\ r.by = "addTask"
    /\ MayReject(r)
    /\ net' = (net \ {r}) \cup {Request("POST", "addTask", 0, 0, r.title, FALSE)}
    /\ issued' = issued + 1
    /\ last' = Step("addTaskCatch", r.rid)
    /\ alerted' = 1
    /\ UNCHANGED <<uiVars, prefVars, serverVars, mounted, newest,
                   editTarget, restarts>>

AddTaskCatch(r) ==
    /\ r.by = "addTask"
    /\ MayReject(r)
    /\ net' = net \ {r}
    /\ last' = Step("addTaskCatch", r.rid)
    /\ alerted' = 1
    /\ UNCHANGED <<uiVars, prefVars, serverVars, mounted, issued, newest, editTarget, restarts>>

----------------------------------------------------------------------------
(* toggleComplete *)

\* Variant: a lookup that never matches.
TitleForNoMatch(id) == << >>

\* tasks.find(t => t.id === id)?.title || ''
TitleFor(id) ==
    LET i == IndexOfId(tasks, id) IN
    IF i = 0 THEN << >>
    ELSE IF tasks[i].title = << >> THEN << >>
    ELSE tasks[i].title

\* The body sent by toggleComplete(id, completed).
ToggleBody(id, completed) == [title |-> TitleFor(id), completed |-> ~completed]

\* Checkbox onPress={() => toggleComplete(item.id, item.completed)}
ToggleComplete(row) ==
    /\ row \in Rows
    /\ issued < MaxIssued
    /\ LET item == At(filteredTasks, row)
           body == ToggleBody(item.id, item.completed)
       IN  net' = net \cup {Request("PUT", "toggleComplete", 0, item.id,
                                    body.title, body.completed)}
    /\ issued' = issued + 1
    /\ last' = Step("toggleComplete", row)
    /\ alerted' = 0
    /\ UNCHANGED <<uiVars, prefVars, serverVars, mounted, newest,
                   editTarget, restarts>>

ToggleCompleteThen(r) ==
    /\ r.by = "toggleComplete"
    /\ Fulfilled(r)
    /\ net' = (net \ {r}) \cup FetchTasks(r.rid)
    /\ issued' = issued + Cardinality(FetchTasks(r.rid))
    /\ last' = Step("toggleCompleteThen", r.rid)
    /\ alerted' = 0
    /\ UNCHANGED <<uiVars, prefVars, serverVars, mounted, newest, editTarget, restarts>>

ToggleCompleteCatch(r) ==
    /\ r.by = "toggleComplete"
    /\ MayReject(r)
    /\ net' = net \ {r}
    /\ last' = Step("toggleCompleteCatch", r.rid)
    /\ alerted' = 1
    /\ UNCHANGED <<uiVars, prefVars, serverVars, mounted, issued, newest, editTarget, restarts>>

----------------------------------------------------------------------------
(* startEditing / confirmEdit *)

\* The element of tasks that startEditing(index) and confirmEdit(index) read.
EditedElement(index) == At(tasks, index)

\* Edit onPress={() => startEditing(index)}: rendered in the rows not being edited.
\* tasks[index] of a position past the end is undefined and .title throws, after
\* setEditingIndex was called.
StartEditing(index) ==
    /\ index \in Rows
    /\ index # editingIndex
    /\ editingIndex' = index
    /\ IF InRange(tasks, index)
       THEN /\ editedTask' = EditedElement(index).title
            /\ editTarget' = EditedElement(index).id
       ELSE UNCHANGED <<editedTask, editTarget>>
    /\ last' = Step("startEditing", index)
    /\ alerted' = 0
    /\ UNCHANGED <<tasks, task, filter, prefVars, serverVars, mounted, net,
                   issued, newest, restarts>>

\* Save onPress={() => confirmEdit(index)}: rendered in the row being edited.
\* updatedTask.id of an undefined updatedTask throws inside the try block.
ConfirmEdit(index) ==
    /\ index \in Rows
    /\ index = editingIndex
    /\ InRange(tasks, index) => issued < MaxIssued
    /\ IF InRange(tasks, index)
       THEN /\ LET updatedTask == EditedElement(index) IN
               net' = net \cup {Request("PUT", "confirmEdit", 0, updatedTask.id,
                                        editedTask, updatedTask.completed)}
            /\ issued' = issued + 1
            /\ alerted' = 0
       ELSE /\ alerted' = 1
            /\ UNCHANGED <<net, issued>>
    /\ last' = Step("confirmEdit", index)
    /\ UNCHANGED <<uiVars, prefVars, serverVars, mounted, newest, editTarget,
                   restarts>>

ConfirmEditThen(r) ==
    /\ r.by = "confirmEdit"
    /\ Fulfilled(r)
    /\ editingIndex' = Null
    /\ editTarget' = 0
    /\ net' = (net \ {r}) \cup FetchTasks(r.rid)
    /\ issued' = issued + Cardinality(FetchTasks(r.rid))
    /\ last' = Step("confirmEditThen", r.rid)
    /\ alerted' = 0
    /\ UNCHANGED <<tasks, task, editedTask, filter, prefVars, serverVars, mounted,
                   newest, restarts>>

ConfirmEditCatch(r) ==
    /\ r.by = "confirmEdit"
    /\ MayReject(r)
    /\ net' = net \ {r}
    /\ last' = Step("confirmEditCatch", r.rid)
    /\ alerted' = 1
    /\ UNCHANGED <<uiVars, prefVars, serverVars, mounted, issued, newest, editTarget, restarts>>

----------------------------------------------------------------------------
(* Specifications *)

Next ==
    \/ Mount
    \/ \E t \in TypedTexts : SetTask(t)
    \/ \E t \in EditTexts : SetEditedTask(t)
    \/ \E f \in Filters : SetFilter(f)
    \/ \E row \in Rows : RemoveTask(row)
    \/ AddTask
    \/ \E row \in Rows : ToggleComplete(row)
    \/ \E index \in Rows : StartEditing(index)
    \/ \E index \in Rows : ConfirmEdit(index)
    \/ \E r \in net : ServerHandle(r)
    \/ \E r \in net : FetchTasksThen(r)
    \/ \E r \in net : FetchTasksCatch(r)
    \/ \E r \in net : RemoveTaskThen(r)
    \/ \E r \in net : RemoveTaskCatch(r)
    \/ \E r \in net : AddTaskThen(r)
    \/ \E r \in net : AddTaskCatch(r)
    \/ \E r \in net : ToggleCompleteThen(r)
    \/ \E r \in net : ToggleCompleteCatch(r)
    \/ \E r \in net : ConfirmEditThen(r)
    \/ \E r \in net : ConfirmEditCatch(r)

Spec == Init /\ [][Next]_vars

\* The preference across restarts.
NextDark ==
    \/ Mount
    \/ StorageExec
    \/ LoadModeThen
    \/ ToggleDarkMode
    \/ Restart

SpecDark == Init /\ [][NextDark]_vars

\* Collections a fetch may deliver: up to MaxLen tasks with distinct ids.
PoolIds == 1 .. (MaxLen + 1)

PoolTitle(i) == IF i % 2 = 1 THEN <<"a">> ELSE <<"b">>

Pool == {Task(i, PoolTitle(i), c) : i \in PoolIds, c \in BOOLEAN}

Collections ==
    UNION { {s \in [1 .. n -> Pool] :
                \A i, j \in 1 .. n : s[i].id = s[j].id => i = j} : n \in 0 .. MaxLen }

InitFilter ==
    /\ tasks \in Collections
    /\ task = << >>
    /\ editingIndex = Null
    /\ editedTask = << >>
    /\ filter = "all"
    /\ darkMode = FALSE
    /\ mounted = TRUE
    /\ storage = "false"
    /\ storageQueue = << >>
    /\ savedMode = "idle"
    /\ srv = tasks
    /\ nextId = MaxLen + 2
    /\ net = {}
    /\ issued = 1
    /\ alerted = 0
    /\ last = Step("fetchTasksThen", 1)
    /\ newest = 1
    /\ editTarget = 0
    /\ pref = "none"
    /\ restarted = FALSE
    /\ restarts = 0

NextFilter == \E f \in Filters : SetFilter(f)

SpecFilter == InitFilter /\ [][NextFilter]_vars

----------------------------------------------------------------------------
(* Vocabulary of the properties *)

\* Requests issued by the step.
NewRequests == {r \in net' : \A q \in net : q.rid # r.rid}

ThenSteps  == {"removeTaskThen", "addTaskThen", "toggleCompleteThen", "confirmEditThen"}

CatchSteps == {"removeTaskCatch", "addTaskCatch", "toggleCompleteCatch", "confirmEditCatch"}

\* The task filter f asks for.
Wanted(f, t) ==
    CASE f = "completed" -> t.completed = TRUE
      [] f = "pending"   -> t.completed = FALSE
      [] OTHER           -> TRUE

Count(s, t) == Cardinality({i \in 1 .. Len(s) : s[i] = t})

\* a is b with some elements left out, the others in their order.
IsSubsequence(a, b) ==
    \E f \in [1 .. Len(a) -> 1 .. Len(b)] :
        /\ \A i, j \in 1 .. Len(a) : i < j => f[i] < f[j]
        /\ \A i \in 1 .. Len(a) : a[i] = b[f[i]]

OnlyWhitespace(s) == \A i \in 1 .. Len(s) : s[i] \in Whitespace

----------------------------------------------------------------------------
(* Properties *)

\* C1: for every collection and filter, the rendered list is the whole
\* collection for 'all', exactly the completed tasks for 'completed', exactly
\* the not completed ones for 'pending'; nothing dropped, duplicated or reordered.
C1_FilteredView ==
    /\ filter = "all" => filteredTasks = tasks
    /\ \A i \in 1 .. Len(filteredTasks) : Wanted(filter, filteredTasks[i])
    /\ \A i \in 1 .. Len(tasks) :
          Count(filteredTasks, tasks[i]) =
             IF Wanted(filter, tasks[i]) THEN Count(tasks, tasks[i]) ELSE 0
    /\ IsSubsequence(filteredTasks, tasks)

C1_Witness ==
    /\ filter = "completed"
    /\ Len(filteredTasks) >= 2
    /\ Len(filteredTasks) < Len(tasks)
    /\ ~tasks[1].completed

\* C2: a step issues a GET /fetch/ only when it is the mount effect or the
\* continuation of a mutation whose request fulfilled, and that continuation
\* issues exactly one, after the reply arrived.
C2_OneRefetch ==
    [][ LET gets == {g \in NewRequests : g.method = "GET"} IN
        IF last'.ev \in ThenSteps
        THEN \E m \in net :
                /\ m.rid = last'.arg
                /\ m.by \in Mutators
                /\ m.stage = "replied" /\ m.ok
                /\ m \notin net'
                /\ Cardinality(gets) = 1
                /\ NewRequests = gets
                /\ \A g \in gets : g.parent = m.rid /\ g.rid > m.rid
        ELSE last'.ev = "mount" \/ gets = {} ]_vars

C2_Witness ==
    /\ last.ev = "confirmEditThen"
    /\ \E g \in net : g.method = "GET" /\ g.parent = last.arg

\* C4: addTask with an empty or whitespace-only text sends nothing, alerts
\* nothing and leaves tasks and the text as they are; with any other text it
\* sends exactly one POST carrying that text and completed = false.
C4_BlankTitle ==
    [][ last'.ev = "addTask" =>
          IF OnlyWhitespace(task)
          THEN /\ NewRequests = {}
               /\ net' = net
               /\ alerted' = 0
               /\ tasks' = tasks
               /\ task' = task
          ELSE \E p \in NewRequests :
                /\ NewRequests = {p}
                /\ net' = net \cup {p}
                /\ p.method = "POST"
                /\ p.title = task
                /\ p.completed = FALSE ]_vars

C4_Witness ==
    /\ last.ev = "addTask"
    /\ task # << >>
    /\ OnlyWhitespace(task)
    /\ \A r \in net : r.method # "POST"

\* C5: the collection starts empty and changes only when a fetch fulfils, to
\* the data of that response, whichever fetch was issued first.
C5_LastResponseWins ==
    /\ tasks = << >>
    /\ [][ IF last'.ev = "fetchTasksThen"
           THEN \E r \in net :
                   /\ r.rid = last'.arg
                   /\ r.method = "GET"
                   /\ r.stage = "replied" /\ r.ok
                   /\ tasks' = r.data
           ELSE tasks' = tasks ]_vars

\* A fetch fulfilled after a fetch issued later had fulfilled, and its older
\* data is what the collection holds.
C5_Witness ==
    /\ last.ev = "fetchTasksThen"
    /\ last.arg < newest
    /\ tasks # srv
    /\ \A r \in net : r.method # "GET"

\* C6: a rejected fetch shows one alert and leaves tasks, filter,
\* editingIndex, editedTask and the input text as they were.
C6_FetchFailure ==
    [][ last'.ev = "fetchTasksCatch" =>
          /\ alerted' = 1
          /\ NewRequests = {}
          /\ UNCHANGED <<tasks, filter, editingIndex, editedTask, task>> ]_vars

C6_Witness ==
    /\ last.ev = "fetchTasksCatch"
    /\ alerted = 1
    /\ tasks # << >>
    /\ last.arg > 1

\* C7: a rejected create, update, toggle or delete shows one alert, issues no
\* request (no re-fetch, no retry) and leaves the collection as it was.
C7_MutationFailure ==
    [][ last'.ev \in CatchSteps =>
          \E m \in net :
             /\ m.rid = last'.arg
             /\ m.by \in Mutators
             /\ net' = net \ {m}
             /\ NewRequests = {}
             /\ alerted' = 1
             /\ tasks' = tasks ]_vars

\* The service applied the change, the reply was lost: the collection is stale.
C7_Witness ==
    /\ last.ev \in CatchSteps
    /\ alerted = 1
    /\ tasks # << >>
    /\ tasks # srv
    /\ net = {}

\* C9: toggleComplete sends one PUT to the id of the tapped row with the
\* negated flag and the title of the local task of that id; for an id the
\* collection does not hold the title is empty; the id of a tapped row is held,
\* so a non-empty title is never sent as the empty one.
C9_ToggleBody ==
    /\ [](\A id \in 0 .. (nextId + 1) : \A c \in BOOLEAN :
             (\A i \in 1 .. Len(tasks) : tasks[i].id # id)
                => ToggleBody(id, c) = [title |-> << >>, completed |-> ~c])
    /\ [][ last'.ev = "toggleComplete" =>
             LET item == At(filteredTasks, last'.arg) IN
             \E p \in NewRequests :
                /\ NewRequests = {p}
                /\ p.method = "PUT"
                /\ p.id = item.id
                /\ p.completed = ~item.completed
                /\ \E i \in 1 .. Len(tasks) :
                      tasks[i].id = item.id /\ p.title = tasks[i].title
                /\ item.title # << >> => p.title # << >> ]_vars

C9_Witness ==
    /\ last.ev = "toggleComplete"
    /\ filter = "completed"
    /\ last.arg = 0
    /\ ~tasks[1].completed
    /\ \E p \in net : p.by = "toggleComplete" /\ p.title # << >> /\ ~p.completed

\* C3: once a value chosen with the Switch is written, the stored value is
\* still that value after a restart, with no user action.
C3_PreferencePersists ==
    (pref # "none" /\ restarted) => storage = pref

\* C8: Edit pre-fills the field with the title of the task displayed in the
\* row, and Save sends the update to that task's id with that task's flag and
\* the edited title, under every filter.
C8_EditDisplayedRow ==
    [][ /\ last'.ev = "startEditing" =>
              editedTask' = At(filteredTasks, last'.arg).title
        /\ last'.ev = "confirmEdit" =>
              LET item == At(filteredTasks, last'.arg) IN
              \E p \in NewRequests :
                 /\ p.method = "PUT"
                 /\ p.id = item.id
                 /\ p.completed = item.completed
                 /\ p.title = editedTask ]_vars

\* C10: while Save can be pressed, editingIndex is a position of the
\* collection and the task there is the one startEditing loaded.
C10_EditTargetStable ==
    editingIndex \in Rows =>
        /\ InRange(tasks, editingIndex)
        /\ At(tasks, editingIndex).id = editTarget

====
